---- MODULE Spec2Model ----
(***************************************************************************)
(* Model of server/excel_export.py: the template-driven report generator   *)
(* export_excel and its merge-aware cell writer set_cell_value.            *)
(*                                                                         *)
(* Numbers are fixed-point with three decimals (Scale = 1000), so 9.5 is   *)
(* 9500 and the percentage 0.10 is 100.  A JSON value is a record          *)
(* [k, n, s]: k is its kind, n its number, s its text.                     *)
(*                                                                         *)
(* The worksheet follows openpyxl: cells is the dictionary of the cells    *)
(* that exist, merged_cells the registered merged ranges, a MergedCell is  *)
(* a cell of a merged range other than its top-left cell (its value is     *)
(* read-only).  insert_rows moves cells and nothing else.                  *)
(*                                                                         *)
(* SpecBeyanname models server/excel_beyanname_export.py: the exporter     *)
(* export_beyanname_excel and the module-level country code table.         *)
(***************************************************************************)
EXTENDS Integers, Sequences, FiniteSets, TLC

\* ------------------------------------------------------------- bounds
\* Longest item list an invocation is given.
MaxItems == 3
\* Most calls of set_cell_value in a run of the cell-writer specification.
MaxWrites == 2
\* Longest item list an invocation of export_beyanname_excel is given.
MaxBeyannameItems == 2

\* ------------------------------------------------------------- values
Scale == 10 ^ 3

NumV(n) == [k |-> "num", n |-> n, s |-> ""]
StrV(s) == [k |-> "str", n |-> 0, s |-> s]
\* A JSON string that holds a decimal literal with a fraction, "12.50".
NumStrV(n) == [k |-> "numstr", n |-> n, s |-> ""]
\* A formula cell of the template as the editable view loads it.
FormulaV(s) == [k |-> "formula", n |-> 0, s |-> s]
NoneV == [k |-> "none", n |-> 0, s |-> ""]
\* The key is not in the dictionary.
AbsentV == [k |-> "absent", n |-> 0, s |-> ""]

\* dict.get(key, default)
get(v, default) == IF v.k = "absent" THEN default ELSE v

\* Python truthiness of a cell value: None, 0, 0.0 and '' are falsy.
truthy(v) ==
    /\ v.k # "none"
    /\ v.k # "absent"
    /\ ~(v.k = "num" /\ v.n = 0)
    /\ ~(v.k = "str" /\ v.s = "")

\* A conversion that turns what it cannot convert into 0.
float_or_zero(v) ==
    [ok |-> TRUE, v |-> NumV(IF v.k \in {"num", "numstr"} THEN v.n ELSE 0)]

\* float(x): a number or a numeric string converts; None and any other
\* string raise (TypeError, ValueError).
float_(v) ==
    IF v.k \in {"num", "numstr"}
    THEN [ok |-> TRUE, v |-> NumV(v.n)]
    ELSE [ok |-> FALSE, v |-> NoneV]

\* int(x): a number is truncated toward zero; a string with a fraction
\* part ("5.0"), None and any other string raise.
int_(v) ==
    IF v.k = "num"
    THEN [ok |-> TRUE,
          v |-> NumV(IF v.n >= 0 THEN (v.n \div Scale) * Scale
                     ELSE -(((-v.n) \div Scale) * Scale))]
    ELSE [ok |-> FALSE, v |-> NoneV]

\* The product of two fixed-point numbers.
mul(a, b) == (a * b) \div Scale

\* ------------------------------------------------------------- cells
DefaultCell ==
    [value |-> NoneV, fill |-> "none", border |-> "none",
     style |-> "default", merged |-> FALSE]

\* StyleableObject.has_style: some style attribute is not the default.
has_style(cell) ==
    cell.fill # "none" \/ cell.border # "none" \/ cell.style # "default"

\* A cell range min_col..max_col x min_row..max_row.
CellRange(min_col, min_row, max_col, max_row) ==
    [min_row |-> min_row, max_row |-> max_row,
     min_col |-> min_col, max_col |-> max_col]

\* CellRange.__contains__ for one coordinate <<row, col>>.
InRange(rc, rng) ==
    /\ rng.min_row <= rc[1] /\ rc[1] <= rng.max_row
    /\ rng.min_col <= rc[2] /\ rc[2] <= rng.max_col

\* rng is within other (CellRange.issubset).
SubRange(rng, other) ==
    /\ other.min_row <= rng.min_row /\ rng.max_row <= other.max_row
    /\ other.min_col <= rng.min_col /\ rng.max_col <= other.max_col

RangeCells(rng) == (rng.min_row .. rng.max_row) \X (rng.min_col .. rng.max_col)

\* MergedCellRange.start_cell: the top-left cell of the range.
start_cell(rng) == <<rng.min_row, rng.min_col>>

\* ------------------------------------------------------------- worksheet
\* ws.cell(row, column): the cell there, a fresh default cell if none is.
cell(w, rc) == IF rc \in DOMAIN w.cells THEN w.cells[rc] ELSE DefaultCell

PutCell(w, rc, c) ==
    [w EXCEPT !.cells = [x \in (DOMAIN w.cells) \cup {rc} |->
                            IF x = rc THEN c ELSE w.cells[x]]]

\* cell.value = value on a Cell.
SetValue(w, rc, value) == PutCell(w, rc, [cell(w, rc) EXCEPT !.value = value])

\* A writer that ignores the merged ranges.
set_cell_value_direct(w, cell_ref, value) == SetValue(w, cell_ref, value)

\* set_cell_value(ws, cell_ref, value): the value goes to the top-left cell of
\* the merged range that contains cell_ref; with no such range it goes to the
\* cell itself, and a MergedCell there (read-only value, AttributeError) is
\* silently left alone.
set_cell_value(w, cell_ref, value) ==
    IF \E rng \in w.merged_cells : InRange(cell_ref, rng)
    THEN LET merged_range == CHOOSE rng \in w.merged_cells : InRange(cell_ref, rng)
         IN  SetValue(w, start_cell(merged_range), value)
    ELSE IF cell(w, cell_ref).merged
         THEN w
         ELSE SetValue(w, cell_ref, value)

\* Worksheet.insert_rows(idx): every cell of a row >= idx moves one row down.
\* Merged ranges, row dimensions and conditional formats stay where they are.
insert_rows(w, idx) ==
    LET moved(rc) == IF rc[1] >= idx THEN <<rc[1] + 1, rc[2]>> ELSE rc
        dom == {moved(rc) : rc \in DOMAIN w.cells}
    IN  [w EXCEPT !.cells = [x \in dom |->
            IF x[1] > idx THEN w.cells[<<x[1] - 1, x[2]>>] ELSE w.cells[x]]]

\* Worksheet.merge_cells(range): the range is registered unless a registered
\* range already covers it; every cell of it but the top-left one becomes a
\* fresh MergedCell that takes the top-left cell's border.
merge_cells(w, rng) ==
    LET rest == RangeCells(rng) \ {start_cell(rng)}
        mc == [DefaultCell EXCEPT !.merged = TRUE,
                                  !.border = cell(w, start_cell(rng)).border]
        w1 == PutCell(w, start_cell(rng), cell(w, start_cell(rng)))
    IN  [w1 EXCEPT
           !.merged_cells =
               IF \E other \in w.merged_cells : SubRange(rng, other)
               THEN w.merged_cells
               ELSE w.merged_cells \cup {rng},
           !.cells = [x \in (DOMAIN w1.cells) \cup rest |->
                         IF x \in rest THEN mc ELSE w1.cells[x]]]

\* ws.max_row
max_row(w) ==
    IF DOMAIN w.cells = {} THEN 1
    ELSE CHOOSE r \in {rc[1] : rc \in DOMAIN w.cells} :
            \A rc \in DOMAIN w.cells : rc[1] <= r

\* ------------------------------------------------------------- template
\* The template asset server/excel_export_template_1.xlsx is a binary that
\* is not among the source files.  It is modelled from its description:
\* a header band (rows 1..9), one styled template data row (row 10), merged
\* regions, formula cells with a cached value, and stray values, borders and
\* fills below the template row and right of column AD.  Every cell the
\* exporter addresses is a displayed cell of its own: no merged region of the
\* template joins two cells the exporter writes.
StyledCell(v) ==
    [value |-> v, fill |-> "none", border |-> "tpl", style |-> "tpl",
     merged |-> FALSE]

StrayCell(v) ==
    [value |-> v, fill |-> "tpl", border |-> "tpl", style |-> "default",
     merged |-> FALSE]

MergedCell(border) ==
    [value |-> NoneV, fill |-> "none", border |-> border, style |-> "default",
     merged |-> TRUE]

\* Row 10, columns A..AD, every cell styled; J10 holds jvalue.
TemplateRowCells(jvalue) ==
    [rc \in {10} \X (1 .. 30) |->
        StyledCell(IF rc[2] = 10 THEN jvalue ELSE NoneV)]

HeaderLabelCells ==
    (<<2, 1>> :> StyledCell(StrV("INVOICE NO")))
    @@ (<<4, 1>> :> StyledCell(StrV("INVOICE DATE")))
    @@ (<<4, 3>> :> StyledCell(StrV("TOTAL QUANTITY")))

\* A template without merged regions; its leftovers are a sample row 11 and
\* notes right of the schema.
TemplatePlain ==
    [cells |-> TemplateRowCells(NoneV) @@ HeaderLabelCells
               @@ (<<11, 1>> :> StyledCell(StrV("sample")))
               @@ (<<11, 8>> :> StyledCell(NumV(7 * Scale)))
               @@ (<<3, 31>> :> StrayCell(StrV("note")))
               @@ (<<5, 29>> :> StrayCell(StrV("draft")))
               @@ (<<12, 32>> :> StrayCell(NumV(Scale))),
     merged_cells |-> {},
     row_height |-> (10 :> 20),
     conditional_formatting |-> {},
     cached |-> <<>>]

\* A template with a title A1:H1, the invoice number cell B2:B3, two merged
\* regions on the template row (AD10:AE10, AF10:AG10), and formula cells
\* J10 and J11 (=H*I) whose cached value is 0.
TemplateMerged ==
    [cells |-> TemplateRowCells(FormulaV("=H10*I10")) @@ HeaderLabelCells
               @@ (<<1, 1>> :> StyledCell(StrV("TAX CALCULATION")))
               @@ [rc \in {1} \X (2 .. 8) |-> MergedCell("tpl")]
               @@ (<<3, 2>> :> MergedCell("none"))
               @@ (<<10, 31>> :> MergedCell("tpl"))
               @@ (<<10, 32>> :> StyledCell(NoneV))
               @@ (<<10, 33>> :> MergedCell("tpl"))
               @@ (<<11, 1>> :> StyledCell(StrV("sample")))
               @@ (<<11, 10>> :> StyledCell(FormulaV("=H11*I11")))
               @@ (<<6, 40>> :> StrayCell(StrV("note"))),
     merged_cells |-> {CellRange(1, 1, 8, 1), CellRange(2, 2, 2, 3),
                       CellRange(30, 10, 31, 10), CellRange(32, 10, 33, 10)},
     row_height |-> (10 :> 20),
     conditional_formatting |-> {},
     cached |-> (<<10, 10>> :> NumV(0)) @@ (<<11, 10>> :> NumV(0))]

Templates == {TemplatePlain, TemplateMerged}

\* ------------------------------------------------------------- inputs
NoHsCodeData ==
    [present |-> FALSE, customs_tax_percent |-> AbsentV,
     additional_customs_tax_percent |-> AbsentV, kkdf_percent |-> AbsentV,
     vat_percent |-> AbsentV]

\* An item with no keys at all.
EmptyItem ==
    [hts_code |-> AbsentV, country_of_origin |-> AbsentV, style |-> AbsentV,
     color |-> AbsentV, category |-> AbsentV, description |-> AbsentV,
     fabric_content |-> AbsentV, cost |-> AbsentV, unit_count |-> AbsentV,
     total_value |-> AbsentV, tr_hs_code |-> AbsentV, requirements |-> <<>>,
     transport_share |-> AbsentV, insurance_share |-> AbsentV,
     storage_share |-> AbsentV, hs_code_data |-> NoHsCodeData,
     customs_tax |-> AbsentV, additional_customs_tax |-> AbsentV,
     kkdf |-> AbsentV, vat |-> AbsentV, total_tax_usd |-> AbsentV,
     total_tax_tl |-> AbsentV, vat_base |-> AbsentV]

\* Scenario A: cost = 10.0, unit_count = 5, no tax fields.
ItemA ==
    [EmptyItem EXCEPT !.hts_code = StrV("6109.10"),
                      !.country_of_origin = StrV("VN"),
                      !.cost = NumV(10 * Scale),
                      !.unit_count = NumV(5 * Scale)]

\* Scenario D with every field: vat_base = 100.0, kkdf = 5.0,
\* vat_percent = 0.10; requirements "EX REGISTRY FORM, AZO DYE TEST".
ItemD ==
    [hts_code |-> StrV("6204.62"), country_of_origin |-> StrV("CN"),
     style |-> StrV("S-1"), color |-> StrV("BLUE"), category |-> StrV("PANTS"),
     description |-> StrV("TROUSERS"), fabric_content |-> StrV("COTTON"),
     cost |-> NumStrV(12500), unit_count |-> NumV(8 * Scale),
     total_value |-> NumV(120 * Scale), tr_hs_code |-> StrV("620462"),
     requirements |-> <<"EX", "REGISTRY", "FORM", ",", "AZO", "DYE", "TEST">>,
     transport_share |-> NumV(3 * Scale), insurance_share |-> NumV(2 * Scale),
     storage_share |-> NumV(Scale),
     hs_code_data |-> [present |-> TRUE, customs_tax_percent |-> NumV(120),
                       additional_customs_tax_percent |-> NumV(200),
                       kkdf_percent |-> NumV(60), vat_percent |-> NumV(100)],
     customs_tax |-> NumV(12 * Scale), additional_customs_tax |-> NumV(20 * Scale),
     kkdf |-> NumV(5 * Scale), vat |-> NumV(10 * Scale),
     total_tax_usd |-> NumV(47 * Scale), total_tax_tl |-> NumV(1500 * Scale),
     vat_base |-> NumV(100 * Scale)]

\* Items with one numeric field that cannot be coerced.
ItemBadCost == [ItemA EXCEPT !.hts_code = StrV("BAD-COST"), !.cost = StrV("abc")]
ItemBadTax == [ItemD EXCEPT !.hts_code = StrV("BAD-KKDF"), !.kkdf = NoneV]
ItemBadPercent ==
    [ItemD EXCEPT !.hts_code = StrV("BAD-VAT%"),
                  !.hs_code_data.vat_percent = StrV("ten")]
ItemBadBase == [ItemD EXCEPT !.hts_code = StrV("BAD-BASE"), !.vat_base = StrV("")]

ItemPool == {ItemA, ItemD, ItemBadCost, ItemBadTax, ItemBadPercent, ItemBadBase}

RECURSIVE SeqsUpTo(_, _)
SeqsUpTo(S, n) ==
    IF n = 0 THEN {<<>>}
    ELSE LET shorter == SeqsUpTo(S, n - 1)
         IN  shorter \cup {Append(q, x) : q \in shorter, x \in S}

ItemLists == SeqsUpTo(ItemPool, MaxItems)

GoodCalc ==
    [invoice_no |-> StrV("INV-7"), invoice_date |-> StrV("2024-03-05T10:00:00Z"),
     total_value |-> NumV(170 * Scale), total_quantity |-> NumV(13 * Scale),
     transport_cost |-> NumV(3 * Scale), insurance_cost |-> NumV(2 * Scale),
     storage_cost |-> NumV(Scale), currency_rate |-> NumStrV(32500),
     reference |-> StrV("REF1")]

Calcs ==
    {GoodCalc,
     [GoodCalc EXCEPT !.reference = StrV("REF2"), !.invoice_date = StrV("05.03.2024")],
     [GoodCalc EXCEPT !.reference = AbsentV, !.invoice_date = AbsentV],
     [GoodCalc EXCEPT !.currency_rate = StrV("n/a")]}

\* ------------------------------------------------------------- state
\* Two invocations of export_excel, each with its own payload, workbook and
\* loop position; the template file and the output directory are shared.
Procs == {1, 2}

VARIABLES
    template,     \* the template file at template_path
    data,         \* data[p]: the payload, [calculation, items]
    pc,           \* pc[p]: where invocation p stands
    ws,           \* ws[p]: the worksheet wb.active of invocation p
    index,        \* index[p]: items whose loop iteration has completed
    inserted,     \* inserted[p]: the rows insert_rows was called with, in order
    output_path,  \* output_path[p]: the path returned, "" before the return
    files,        \* the output directory: path -> the workbook saved there
    lastWrite,    \* the latest direct call of set_cell_value: [n, ref, value]
    DEFAULT_COUNTRY_CODE_MAPPING,
                  \* the module-level table of excel_beyanname_export.py
    country_code_mapping
                  \* country_code_mapping[p]: the merged table of invocation p

vars ==
    <<template, data, pc, ws, index, inserted, output_path, files, lastWrite,
      DEFAULT_COUNTRY_CODE_MAPPING, country_code_mapping>>

\* The state of excel_beyanname_export.py, which export_excel never touches.
beyanname_vars == <<DEFAULT_COUNTRY_CODE_MAPPING, country_code_mapping>>

EmptySheet ==
    [cells |-> [x \in {} |-> DefaultCell], merged_cells |-> {},
     row_height |-> [x \in {} |-> 0], conditional_formatting |-> {}]

NoFiles == [x \in {} |-> [workbook |-> EmptySheet, by |-> 0]]

NoData == [calculation |-> GoodCalc, items |-> <<>>]

OkV(v) == [ok |-> TRUE, v |-> v]

\* ------------------------------------------------------------- excel_beyanname_export.py
\* The other exporter of the repository, export_beyanname_excel.  A country
\* code is a text held as the sequence of its characters.
LowerCase ==
    <<"a", "b", "c", "d", "e", "f", "g", "h", "i", "j", "k", "l", "m",
      "n", "o", "p", "q", "r", "s", "t", "u", "v", "w", "x", "y", "z">>

UpperCase ==
    <<"A", "B", "C", "D", "E", "F", "G", "H", "I", "J", "K", "L", "M",
      "N", "O", "P", "Q", "R", "S", "T", "U", "V", "W", "X", "Y", "Z">>

\* str.upper(): every lower-case letter becomes its capital, every other
\* character stays.
upper(text) ==
    [i \in DOMAIN text |->
        IF \E j \in DOMAIN LowerCase : LowerCase[j] = text[i]
        THEN UpperCase[CHOOSE j \in DOMAIN LowerCase : LowerCase[j] = text[i]]
        ELSE text[i]]

\* What an item holds under 'country_of_origin': a text, null, a number
\* other than 0, or nothing.
TextV(chars) == [k |-> "str", chars |-> chars]
NoneText == [k |-> "none", chars |-> <<>>]
AbsentText == [k |-> "absent", chars |-> <<>>]
NumberText == [k |-> "num", chars |-> <<>>]

\* Lines 9-33: the table as the module defines it.
CountryCodeTable ==
    (<<"C", "N">> :> StrV("720")) @@ (<<"I", "D">> :> StrV("700"))
    @@ (<<"K", "H">> :> StrV("696")) @@ (<<"V", "N">> :> StrV("690"))
    @@ (<<"U", "S">> :> StrV("400")) @@ (<<"T", "W">> :> StrV("736"))
    @@ (<<"I", "T">> :> StrV("005")) @@ (<<"R", "O">> :> StrV("066"))
    @@ (<<"J", "O">> :> StrV("628")) @@ (<<"N", "I">> :> StrV("432"))
    @@ (<<"A", "Q">> :> StrV("891")) @@ (<<"T", "H">> :> StrV("680"))
    @@ (<<"L", "K">> :> StrV("669")) @@ (<<"A", "L">> :> StrV("070"))
    @@ (<<"S", "G">> :> StrV("706")) @@ (<<"G", "T">> :> StrV("416"))
    @@ (<<"C", "O">> :> StrV("480")) @@ (<<"C", "M">> :> StrV("302"))
    @@ (<<"P", "H">> :> StrV("708")) @@ (<<"T", "R">> :> StrV("052"))
    @@ (<<"C", "A">> :> StrV("404")) @@ (<<"S", "V">> :> StrV("428"))
    @@ (<<"H", "K">> :> StrV("740"))

EmptyDict == [x \in {} |-> StrV("")]

\* dict.get(key, default) on a table.
dict_get(d, key, default) == IF key \in DOMAIN d THEN d[key] ELSE default

\* What the payload holds under 'customMappings': a table, null or nothing.
DictV(d) == [k |-> "dict", d |-> d]
NoneDict == [k |-> "none", d |-> EmptyDict]
AbsentDict == [k |-> "absent", d |-> EmptyDict]

\* default.update(custom): the default table itself takes the overrides.
merge_in_place(default, custom) ==
    LET merged == [key \in (DOMAIN default) \cup (DOMAIN custom) |->
                      IF key \in DOMAIN custom THEN custom[key] ELSE default[key]]
    IN  [country_code_mapping |-> merged, DEFAULT_COUNTRY_CODE_MAPPING |-> merged]

\* Line 50, {**DEFAULT_COUNTRY_CODE_MAPPING, **custom_mappings}: a new table
\* with the keys of both, the later operand winning; the operands stay.
merge_mappings(default, custom) ==
    [country_code_mapping |->
        [key \in (DOMAIN default) \cup (DOMAIN custom) |->
            IF key \in DOMAIN custom THEN custom[key] ELSE default[key]],
     DEFAULT_COUNTRY_CODE_MAPPING |-> default]

\* Line 86: a falsy country gives '', a text is looked up in capitals, and
\* a number has no upper() (AttributeError).
country_code_3digit(mapping, country_of_origin) ==
    IF country_of_origin.k \in {"absent", "none"} \/ country_of_origin = TextV(<<>>)
    THEN [ok |-> TRUE, v |-> StrV("")]
    ELSE IF country_of_origin.k = "str"
    THEN [ok |-> TRUE, v |-> dict_get(mapping, upper(country_of_origin.chars), StrV(""))]
    ELSE [ok |-> FALSE, v |-> NoneV]

\* Lines 94-104: the truthy parts joined by one blank; a part that is not a
\* text makes join raise.
RECURSIVE join(_)
join(parts) ==
    IF parts = <<>> THEN ""
    ELSE IF Len(parts) = 1 THEN Head(parts).s
    ELSE Head(parts).s \o " " \o join(Tail(parts))

tanim(style, description_tr, item_description, fabric_content) ==
    LET tanim_parts ==
            SelectSeq(<<style, description_tr, item_description, fabric_content>>, truthy)
    IN  IF \A i \in DOMAIN tanim_parts : tanim_parts[i].k = "str"
        THEN [ok |-> TRUE, v |-> StrV(join(tanim_parts))]
        ELSE [ok |-> FALSE, v |-> NoneV]

\* ws['A2'] = value, one after the other: the value attribute of a
\* MergedCell is read-only and the assignment raises.
RECURSIVE RunAssign(_, _)
RunAssign(w, steps) ==
    IF steps = <<>> THEN [ok |-> TRUE, ws |-> w]
    ELSE IF cell(w, Head(steps).ref).merged THEN [ok |-> FALSE, ws |-> w]
    ELSE RunAssign(SetValue(w, Head(steps).ref, Head(steps).value), Tail(steps))

\* Line 113: cell_c.number_format = '@'.
text_format(w, rc) == PutCell(w, rc, [cell(w, rc) EXCEPT !.style = "@"])

NoHsCodes == [present |-> FALSE, unit |-> AbsentV, description_tr |-> AbsentV,
              vat_percent |-> AbsentV]

NoProduct == [present |-> FALSE, brand |-> AbsentV, item_description |-> AbsentV]

\* Lines 61-104: the values of one row, or the failure of a coercion.
beyanname_row(mapping, item) ==
    LET cost == float_(get(item.cost, NumV(0)))
        unit_count == int_(get(item.unit_count, NumV(0)))
        hs == item.hs_code_data
        pd == item.product_data
        unit == IF hs.present THEN get(hs.unit, StrV("")) ELSE StrV("")
        description_tr == IF hs.present THEN get(hs.description_tr, StrV("")) ELSE StrV("")
        vat_percent_decimal ==
            IF hs.present THEN float_(get(hs.vat_percent, NumV(0))) ELSE OkV(NumV(0))
        brand == IF pd.present THEN get(pd.brand, StrV("")) ELSE StrV("")
        item_description ==
            IF pd.present THEN get(pd.item_description, StrV("")) ELSE StrV("")
        code == country_code_3digit(mapping, item.country_of_origin)
        text == tanim(get(item.style, StrV("")), description_tr, item_description,
                      get(item.fabric_content, StrV("")))
    IN  IF cost.ok /\ unit_count.ok /\ vat_percent_decimal.ok /\ code.ok /\ text.ok
        THEN [ok |-> TRUE,
              v |-> <<get(item.tr_hs_code, StrV("")),
                      NumV(mul(cost.v.n, unit_count.v.n)),
                      code.v, unit, StrV("1"), StrV("BI"), brand, unit_count.v,
                      StrV("K1"), StrV("9"), StrV(""), StrV("11"), text.v,
                      NumV(vat_percent_decimal.v.n * 100), StrV("-")>>]
        ELSE [ok |-> FALSE, v |-> <<>>]

\* Lines 107-125: columns A..O of row row_num, C formatted as text.
write_beyanname_row(w, row_num, values) ==
    LET upto(n) == RunAssign(w, [c \in 1 .. n |-> [ref |-> <<row_num, c>>, value |-> values[c]]])
        abc == upto(3)
    IN  IF ~abc.ok THEN abc
        ELSE RunAssign(text_format(abc.ws, <<row_num, 3>>),
                       [c \in 1 .. 12 |-> [ref |-> <<row_num, c + 3>>, value |-> values[c + 3]]])

\* Line 129.
beyanname_output_path(d) ==
    "/tmp/beyanname_" \o get(d.calculation.reference, StrV("export")).s
    \o "_" \o get(d.timestamp, StrV("")).s \o ".xlsx"

\* The template of this exporter: one header row, pre-sized styled rows.
BeyannameTemplate ==
    [cells |-> [rc \in {1, 2} \X (1 .. 15) |->
                   IF rc[1] = 1 THEN StyledCell(StrV("HEAD")) ELSE StyledCell(NoneV)],
     merged_cells |-> {},
     row_height |-> (1 :> 30),
     conditional_formatting |-> {},
     cached |-> <<>>]

\* openpyxl.load_workbook(template_path): the editable view as it is.
load_editable(tpl) ==
    [cells |-> tpl.cells, merged_cells |-> tpl.merged_cells,
     row_height |-> tpl.row_height,
     conditional_formatting |-> tpl.conditional_formatting]

NoMapping == EmptyDict

\* The table is as the module defines it and no invocation has merged yet.
NoBeyanname ==
    /\ DEFAULT_COUNTRY_CODE_MAPPING = CountryCodeTable
    /\ country_code_mapping = [p \in Procs |-> NoMapping]

\* ------------------------------------------------------------- steps of export_excel

\* A straight-line run of set_cell_value calls.  Each step is a cell and the
\* outcome of evaluating its argument; the first argument that raises ends
\* the run, with the earlier writes done.
RECURSIVE RunWrites(_, _)
RunWrites(w, steps) ==
    IF steps = <<>> THEN [ok |-> TRUE, ws |-> w]
    ELSE IF ~Head(steps).r.ok THEN [ok |-> FALSE, ws |-> w]
    ELSE RunWrites(set_cell_value(w, Head(steps).ref, Head(steps).r.v), Tail(steps))

Step(ref, r) == [ref |-> ref, r |-> r]

\* Both views of the template; every formula cell of the editable view takes
\* the value the data-only view holds at its coordinate.
load_workbook(tpl) ==
    [cells |-> [rc \in DOMAIN tpl.cells |->
                  IF tpl.cells[rc].value.k = "formula"
                  THEN [tpl.cells[rc] EXCEPT !.value =
                          IF rc \in DOMAIN tpl.cached THEN tpl.cached[rc] ELSE NoneV]
                  ELSE tpl.cells[rc]],
     merged_cells |-> tpl.merged_cells,
     row_height |-> tpl.row_height,
     conditional_formatting |-> tpl.conditional_formatting]

\* datetime.fromisoformat(s.replace('Z', '+00:00')) on the date strings of the
\* payloads, then strftime('%d/%m/%Y').
fromisoformat(s) ==
    IF s = "2024-03-05T10:00:00Z"
    THEN [ok |-> TRUE, d |-> "05", m |-> "03", y |-> "2024"]
    ELSE [ok |-> FALSE, d |-> "", m |-> "", y |-> ""]

formatted_date(calc) ==
    LET invoice_date == get(calc.invoice_date, StrV(""))
    IN  IF ~truthy(invoice_date) THEN StrV("")
        ELSE IF invoice_date.k = "str" /\ fromisoformat(invoice_date.s).ok
        THEN LET date_obj == fromisoformat(invoice_date.s)
             IN  StrV(date_obj.d \o "/" \o date_obj.m \o "/" \o date_obj.y)
        ELSE invoice_date

\* Lines 46-72: the invoice header.
HeaderSteps(calc) ==
    << Step(<<2, 2>>, OkV(get(calc.invoice_no, StrV("")))),
       Step(<<4, 2>>, OkV(formatted_date(calc))),
       Step(<<2, 3>>, OkV(StrV("TOTAL VALUE"))),
       Step(<<2, 4>>, float_(get(calc.total_value, NumV(0)))),
       Step(<<4, 4>>, int_(get(calc.total_quantity, NumV(0)))),
       Step(<<2, 5>>, OkV(StrV("TRANSPORT COST"))),
       Step(<<4, 5>>, OkV(StrV("INSURANCE COST"))),
       Step(<<2, 7>>, OkV(StrV("STORAGE COST"))),
       Step(<<4, 7>>, OkV(StrV("CURRENCY -USD/TL-"))),
       Step(<<2, 6>>, float_(get(calc.transport_cost, NumV(0)))),
       Step(<<4, 6>>, float_(get(calc.insurance_cost, NumV(0)))),
       Step(<<2, 8>>, float_(get(calc.storage_cost, NumV(0)))),
       Step(<<4, 8>>, float_(get(calc.currency_rate, NumV(0)))) >>

\* sum(float(item.get(field, 0)) for item in items)
RECURSIVE sum_field(_, _)
sum_field(items, field) ==
    IF items = <<>> THEN OkV(NumV(0))
    ELSE LET x == float_(get(Head(items)[field], NumV(0)))
             rest == sum_field(Tail(items), field)
         IN  IF x.ok /\ rest.ok THEN OkV(NumV(x.v.n + rest.v.n))
             ELSE [ok |-> FALSE, v |-> NoneV]

\* Lines 74-79.
Totals(items) ==
    [customs_tax |-> sum_field(items, "customs_tax"),
     add_customs_tax |-> sum_field(items, "additional_customs_tax"),
     kkdf |-> sum_field(items, "kkdf"),
     vat |-> sum_field(items, "vat"),
     tax_usd |-> sum_field(items, "total_tax_usd"),
     tax_tl |-> sum_field(items, "total_tax_tl")]

TotalsOk(t) ==
    /\ t.customs_tax.ok /\ t.add_customs_tax.ok /\ t.kkdf.ok
    /\ t.vat.ok /\ t.tax_usd.ok /\ t.tax_tl.ok

total_vat_minus_kkdf(total_vat, total_kkdf) == total_vat - total_kkdf

\* Line 93: the 'VAT (KKDF included)' total.
total_vat_with_kkdf(total_vat, total_kkdf) == total_vat + total_kkdf

\* Line 96: the 'tax (KKDF excluded)' total.
total_tax_without_kkdf(total_tax_usd, total_kkdf) == total_tax_usd - total_kkdf

\* Lines 81-97: the summary labels of row 6 and the totals of row 7.
SummarySteps(t) ==
    << Step(<<6, 1>>, OkV(StrV("TOTAL CUSTOMS TAX"))),
       Step(<<6, 2>>, OkV(StrV("TOTAL ADD. CUSTOMS TAX"))),
       Step(<<6, 3>>, OkV(StrV("TOTAL KKDF"))),
       Step(<<6, 4>>, OkV(StrV("TOTAL VAT (KKDF INCLUDED)"))),
       Step(<<6, 5>>, OkV(StrV("TOTAL VAT (KKDF EXCLUDED)"))),
       Step(<<6, 6>>, OkV(StrV("TOTAL TAX (KKDF INCLUDED)"))),
       Step(<<6, 7>>, OkV(StrV("TOTAL TAX (KKDF EXCLUDED)"))),
       Step(<<6, 8>>, OkV(StrV("TOTAL TAX TURKISH LIRA"))),
       Step(<<7, 1>>, OkV(t.customs_tax.v)),
       Step(<<7, 2>>, OkV(t.add_customs_tax.v)),
       Step(<<7, 3>>, OkV(t.kkdf.v)),
       Step(<<7, 4>>, OkV(NumV(total_vat_with_kkdf(t.vat.v.n, t.kkdf.v.n)))),
       Step(<<7, 5>>, OkV(t.vat.v)),
       Step(<<7, 6>>, OkV(t.tax_usd.v)),
       Step(<<7, 7>>, OkV(NumV(total_tax_without_kkdf(t.tax_usd.v.n, t.kkdf.v.n)))),
       Step(<<7, 8>>, OkV(t.tax_tl.v)) >>

\* Lines 99-128: the column heads of row 9, A..AD.
ColumnHeads ==
    << "HTS Codes", "Country of Origin", "Style", "Color", "Category",
       "Description", "Fabric Content", "Cost", "Unit", "Total Value",
       "TR HS CODE", "EX REGISTRY FORM", "AZO DYE TEST", "SPECIAL CUSTOMS",
       "TRANSPORT", "INSURANCE", "STORAGE", "CUSTOMS TAX %",
       "ADDITIONAL CUSTOMS TAX %", "KKDF %", "VAT %", "TOTAL CUSTOMS TAX",
       "TOTAL ADDT CUSTOMS TAX", "KKDF VALUE", "VAT BASE WITH KKDF",
       "VAT BASE WITHOUT KKDF", "VAT VALUE WITH KKDF", "VAT VALUE WITHOUT KKDF",
       "TOTAL TAX WITH KKDF", "TOTAL TAX WITHOUT KKDF" >>

ColumnHeadSteps == [c \in 1 .. 30 |-> Step(<<9, c>>, OkV(StrV(ColumnHeads[c])))]

\* ------------------------------------------------------------- row cloner
template_row == 10

\* Line 131.
last_data_row(items) == 10 + Len(items) - 1

\* Line 134: the row of the item at (0-based) index.
row_num(i) == 10 + i

\* An insertion at the template row, which pushes the populated rows down.
insert_at_template_row(i) == template_row

\* Line 137: the row insert_rows is called with for the item at index i > 0.
insert_position(i) == row_num(i)

\* Lines 139-149: the style of every template-row cell that has one is
\* copied to the cell below it in row rn; both cells exist afterwards.
copy_row_style(w, rn) ==
    LET touched == {template_row, rn} \X (1 .. 30)
    IN  [w EXCEPT !.cells = [x \in (DOMAIN w.cells) \cup touched |->
            IF x[1] = rn /\ x[2] \in 1 .. 30
               /\ has_style(cell(w, <<template_row, x[2]>>))
            THEN [cell(w, x) EXCEPT
                    !.fill = cell(w, <<template_row, x[2]>>).fill,
                    !.border = cell(w, <<template_row, x[2]>>).border,
                    !.style = cell(w, <<template_row, x[2]>>).style]
            ELSE cell(w, x)]]

\* Line 151.
copy_row_height(w, rn) ==
    LET h == IF template_row \in DOMAIN w.row_height
             THEN w.row_height[template_row] ELSE 0
    IN  [w EXCEPT !.row_height = [r \in (DOMAIN w.row_height) \cup {template_row, rn} |->
            IF r = rn THEN h
            ELSE IF r \in DOMAIN w.row_height THEN w.row_height[r] ELSE 0]]

\* A test that forgets the template row.
any_single_row_range(rng) == rng.min_row = rng.max_row

\* Line 155: the merged ranges that are cloned.
is_template_row_range(rng) ==
    rng.min_row = template_row /\ rng.max_row = template_row

RECURSIVE merge_all(_, _)
merge_all(w, rngs) ==
    IF rngs = {} THEN w
    ELSE LET rng == CHOOSE x \in rngs : TRUE
         IN  merge_all(merge_cells(w, rng), rngs \ {rng})

\* Lines 154-162: each merged range of the template row is registered again
\* on row rn with the same columns.
clone_merged_ranges(w, rn) ==
    merge_all(w, {CellRange(rng.min_col, rn, rng.max_col, rn) :
                    rng \in {x \in w.merged_cells : is_template_row_range(x)}})

\* Lines 136-162 for the item at index i > 0.
clone_row(w, i) ==
    clone_merged_ranges(
        copy_row_height(
            copy_row_style(insert_rows(w, insert_position(i)), row_num(i)),
            row_num(i)),
        row_num(i))

\* ------------------------------------------------------------- line-item populator
\* needle in requirements, both as token sequences.
contains(needle, requirements) ==
    \E i \in 0 .. (Len(requirements) - Len(needle)) :
        SubSeq(requirements, i + 1, i + Len(needle)) = needle

Mark(flag) == OkV(StrV(IF flag THEN "X" ELSE ""))

\* Lines 190-199: the percentage of columns R..U.
percent_cell(hs_code_data, field) ==
    IF hs_code_data.present
    THEN float_(get(hs_code_data[field], NumV(0)))
    ELSE OkV(NumV(0))

\* Lines 171-199: columns A..U.
ItemStepsText(item, rn) ==
    << Step(<<rn, 1>>, OkV(get(item.hts_code, StrV("")))),
       Step(<<rn, 2>>, OkV(get(item.country_of_origin, StrV("")))),
       Step(<<rn, 3>>, OkV(get(item.style, StrV("")))),
       Step(<<rn, 4>>, OkV(get(item.color, StrV("")))),
       Step(<<rn, 5>>, OkV(get(item.category, StrV("")))),
       Step(<<rn, 6>>, OkV(get(item.description, StrV("")))),
       Step(<<rn, 7>>, OkV(get(item.fabric_content, StrV("")))),
       Step(<<rn, 8>>, float_(get(item.cost, NumV(0)))),
       Step(<<rn, 9>>, int_(get(item.unit_count, NumV(0)))),
       Step(<<rn, 10>>, float_(get(item.total_value, NumV(0)))),
       Step(<<rn, 11>>, OkV(get(item.tr_hs_code, StrV("")))),
       Step(<<rn, 12>>, Mark(contains(<<"EX", "REGISTRY", "FORM">>, item.requirements))),
       Step(<<rn, 13>>, Mark(contains(<<"AZO", "DYE", "TEST">>, item.requirements))),
       Step(<<rn, 14>>, Mark(contains(<<"SPECIAL", "CUSTOM">>, item.requirements))),
       Step(<<rn, 15>>, float_(get(item.transport_share, NumV(0)))),
       Step(<<rn, 16>>, float_(get(item.insurance_share, NumV(0)))),
       Step(<<rn, 17>>, float_(get(item.storage_share, NumV(0)))),
       Step(<<rn, 18>>, percent_cell(item.hs_code_data, "customs_tax_percent")),
       Step(<<rn, 19>>, percent_cell(item.hs_code_data, "additional_customs_tax_percent")),
       Step(<<rn, 20>>, percent_cell(item.hs_code_data, "kkdf_percent")),
       Step(<<rn, 21>>, percent_cell(item.hs_code_data, "vat_percent")) >>

vat_base_plus_kkdf(vat_base_with_kkdf, item_kkdf) == vat_base_with_kkdf + item_kkdf

\* Line 208.
vat_base_without_kkdf(vat_base_with_kkdf, item_kkdf) == vat_base_with_kkdf - item_kkdf

\* Line 211.
vat_without_kkdf(base_without_kkdf, vat_percent) == mul(base_without_kkdf, vat_percent)

\* Lines 201-210: the coercions made before column V is written.
ItemTaxes(item) ==
    [customs_tax |-> float_(get(item.customs_tax, NumV(0))),
     add_customs_tax |-> float_(get(item.additional_customs_tax, NumV(0))),
     kkdf |-> float_(get(item.kkdf, NumV(0))),
     vat |-> float_(get(item.vat, NumV(0))),
     total_tax_usd |-> float_(get(item.total_tax_usd, NumV(0))),
     vat_base |-> float_(get(item.vat_base, NumV(0))),
     vat_percent |-> percent_cell(item.hs_code_data, "vat_percent")]

ItemTaxesOk(x) ==
    /\ x.customs_tax.ok /\ x.add_customs_tax.ok /\ x.kkdf.ok /\ x.vat.ok
    /\ x.total_tax_usd.ok /\ x.vat_base.ok /\ x.vat_percent.ok

\* Lines 201-221: columns V..AD; nothing is written when a coercion raises.
ItemStepsTax(item, rn) ==
    LET x == ItemTaxes(item)
        base_without == vat_base_without_kkdf(x.vat_base.v.n, x.kkdf.v.n)
    IN  IF ~ItemTaxesOk(x) THEN << Step(<<rn, 22>>, [ok |-> FALSE, v |-> NoneV]) >>
        ELSE << Step(<<rn, 22>>, x.customs_tax),
                Step(<<rn, 23>>, x.add_customs_tax),
                Step(<<rn, 24>>, x.kkdf),
                Step(<<rn, 25>>, x.vat_base),
                Step(<<rn, 26>>, OkV(NumV(base_without))),
                Step(<<rn, 27>>, x.vat),
                Step(<<rn, 28>>, OkV(NumV(vat_without_kkdf(base_without, x.vat_percent.v.n)))),
                Step(<<rn, 29>>, x.total_tax_usd),
                Step(<<rn, 30>>, OkV(NumV(x.total_tax_usd.v.n - x.kkdf.v.n))) >>

band_fill_flipped(i) == IF i % 2 = 0 THEN "white" ELSE "gray"

\* Line 226: the banding fill of the item at index i.
band_fill(i) == IF i % 2 = 0 THEN "gray" ELSE "white"

\* Lines 226-233: the fill of columns A..AD of row rn.
fill_row(w, rn, fill) ==
    [w EXCEPT !.cells = [x \in (DOMAIN w.cells) \cup ({rn} \X (1 .. 30)) |->
        IF x[1] = rn /\ x[2] \in 1 .. 30
        THEN [cell(w, x) EXCEPT !.fill = fill]
        ELSE w.cells[x]]]

\* ------------------------------------------------------------- formatting scrubber
ScrubMaxRow == 6000

Min(a, b) == IF a <= b THEN a ELSE b

\* One scrub loop: every cell of the rectangle loses its border and fill,
\* and its value when that is truthy.  Then the white-border rule is added
\* for the region named cf_range.
scrub(w, min_row, max_row_, min_col, max_col, cf_range) ==
    [w EXCEPT
       !.cells = [x \in DOMAIN w.cells |->
          IF min_row <= x[1] /\ x[1] <= max_row_ /\ min_col <= x[2] /\ x[2] <= max_col
          THEN [w.cells[x] EXCEPT
                  !.border = "none", !.fill = "none",
                  !.value = IF truthy(w.cells[x].value) THEN NoneV ELSE w.cells[x].value]
          ELSE w.cells[x]],
       !.conditional_formatting = w.conditional_formatting \cup {cf_range}]

\* A scrub that starts on the last data row.
start_row_on_last(items) == last_data_row(items)

\* Line 240.
start_row(items) == last_data_row(items) + 1

\* Lines 239-277: the three regions A{start_row}:AD6000, AC1:BZ7, AE1:BZ6000.
scrub_all(w, items) ==
    LET w1 == scrub(w, start_row(items), Min(max_row(w), ScrubMaxRow), 1, 30,
                    CellRange(1, start_row(items), 30, ScrubMaxRow))
        w2 == scrub(w1, 1, 7, 29, 78, CellRange(29, 1, 78, 7))
    IN  scrub(w2, 1, Min(max_row(w2), ScrubMaxRow), 31, 78,
              CellRange(31, 1, 78, ScrubMaxRow))

\* ------------------------------------------------------------- output writer
\* A path that ignores the reference.
fixed_output_path(calc) == "/tmp/tax_calculation_export.xlsx"

\* Line 279.
make_output_path(calc) ==
    "/tmp/tax_calculation_" \o get(calc.reference, StrV("export")).s \o ".xlsx"

\* ------------------------------------------------------------- actions
\* Lines 27-42: both views of the template are loaded and the formula cells
\* take their cached values.
LoadTemplate(p) ==
    /\ pc[p] = "start"
    /\ ws' = [ws EXCEPT ![p] = load_workbook(template)]
    /\ pc' = [pc EXCEPT ![p] = "header"]
    /\ UNCHANGED <<template, data, index, inserted, output_path, files, lastWrite>>
    /\ UNCHANGED beyanname_vars

\* Lines 44-72: the invoice header; a field that cannot be coerced raises.
WriteHeader(p) ==
    /\ pc[p] = "header"
    /\ LET r == RunWrites(ws[p], HeaderSteps(data[p].calculation))
       IN  /\ ws' = [ws EXCEPT ![p] = r.ws]
           /\ pc' = [pc EXCEPT ![p] = IF r.ok THEN "aggregate" ELSE "failed"]
    /\ UNCHANGED <<template, data, index, inserted, output_path, files, lastWrite>>
    /\ UNCHANGED beyanname_vars

\* Lines 74-97: the six sums, then the summary labels and values.
Aggregate(p) ==
    /\ pc[p] = "aggregate"
    /\ LET t == Totals(data[p].items)
       IN  IF TotalsOk(t)
           THEN /\ ws' = [ws EXCEPT ![p] = RunWrites(ws[p], SummarySteps(t)).ws]
                /\ pc' = [pc EXCEPT ![p] = "heads"]
           ELSE /\ ws' = ws
                /\ pc' = [pc EXCEPT ![p] = "failed"]
    /\ UNCHANGED <<template, data, index, inserted, output_path, files, lastWrite>>
    /\ UNCHANGED beyanname_vars

\* Lines 99-131: the column heads of row 9.
WriteColumnHeads(p) ==
    /\ pc[p] = "heads"
    /\ ws' = [ws EXCEPT ![p] = RunWrites(ws[p], ColumnHeadSteps).ws]
    /\ pc' = [pc EXCEPT ![p] = "loop"]
    /\ UNCHANGED <<template, data, index, inserted, output_path, files, lastWrite>>
    /\ UNCHANGED beyanname_vars

\* Lines 133-233: one iteration of the item loop: the row is cloned for
\* every item but the first, populated, and banded.
ProcessItem(p) ==
    /\ pc[p] = "loop"
    /\ index[p] < Len(data[p].items)
    /\ LET i == index[p]
           item == data[p].items[i + 1]
           w0 == IF i > 0 THEN clone_row(ws[p], i) ELSE ws[p]
           r1 == RunWrites(w0, ItemStepsText(item, row_num(i)))
           r2 == IF r1.ok THEN RunWrites(r1.ws, ItemStepsTax(item, row_num(i))) ELSE r1
       IN  /\ inserted' = [inserted EXCEPT ![p] =
                              IF i > 0 THEN Append(@, insert_position(i)) ELSE @]
           /\ IF r2.ok
              THEN /\ ws' = [ws EXCEPT ![p] = fill_row(r2.ws, row_num(i), band_fill(i))]
                   /\ index' = [index EXCEPT ![p] = i + 1]
                   /\ pc' = pc
              ELSE /\ ws' = [ws EXCEPT ![p] = r2.ws]
                   /\ index' = index
                   /\ pc' = [pc EXCEPT ![p] = "failed"]
    /\ UNCHANGED <<template, data, output_path, files, lastWrite>>
    /\ UNCHANGED beyanname_vars

\* Lines 235-277: the three scrub regions, after the last item.
Scrub(p) ==
    /\ pc[p] = "loop"
    /\ index[p] = Len(data[p].items)
    /\ ws' = [ws EXCEPT ![p] = scrub_all(ws[p], data[p].items)]
    /\ pc' = [pc EXCEPT ![p] = "save"]
    /\ UNCHANGED <<template, data, index, inserted, output_path, files, lastWrite>>
    /\ UNCHANGED beyanname_vars

\* Lines 279-282: the workbook is saved and its path returned.
Save(p) ==
    /\ pc[p] = "save"
    /\ LET path == make_output_path(data[p].calculation)
       IN  /\ files' = [x \in (DOMAIN files) \cup {path} |->
                           IF x = path THEN [workbook |-> ws[p], by |-> p]
                           ELSE files[x]]
           /\ output_path' = [output_path EXCEPT ![p] = path]
    /\ pc' = [pc EXCEPT ![p] = "done"]
    /\ UNCHANGED <<template, data, ws, index, inserted, lastWrite>>
    /\ UNCHANGED beyanname_vars

\* ------------------------------------------------------------- specifications
Payloads == [calculation : Calcs, items : ItemLists]

NoWrite == [n |-> 0, ref |-> <<1, 1>>, value |-> NoneV]

\* One invocation of export_excel on any payload and template.
Init ==
    /\ template \in Templates
    /\ data \in {[p \in Procs |-> IF p = 1 THEN d ELSE NoData] : d \in Payloads}
    /\ pc = [p \in Procs |-> IF p = 1 THEN "start" ELSE "off"]
    /\ ws = [p \in Procs |-> EmptySheet]
    /\ index = [p \in Procs |-> 0]
    /\ inserted = [p \in Procs |-> <<>>]
    /\ output_path = [p \in Procs |-> ""]
    /\ files = NoFiles
    /\ lastWrite = NoWrite
    /\ NoBeyanname

Next ==
    \E p \in Procs :
        \/ LoadTemplate(p)
        \/ WriteHeader(p)
        \/ Aggregate(p)
        \/ WriteColumnHeads(p)
        \/ ProcessItem(p)
        \/ Scrub(p)
        \/ Save(p)

Spec == Init /\ [][Next]_vars

\* Two invocations of export_excel, interleaved in every order.
PairPayloads ==
    [calculation : {c \in Calcs : float_(c.currency_rate).ok},
     items : {<<>>, <<ItemA>>, <<ItemBadCost>>}]

InitPair ==
    /\ template \in Templates
    /\ data \in [Procs -> PairPayloads]
    /\ pc = [p \in Procs |-> "start"]
    /\ ws = [p \in Procs |-> EmptySheet]
    /\ index = [p \in Procs |-> 0]
    /\ inserted = [p \in Procs |-> <<>>]
    /\ output_path = [p \in Procs |-> ""]
    /\ files = NoFiles
    /\ lastWrite = NoWrite
    /\ NoBeyanname

SpecPair == InitPair /\ [][Next]_vars

\* set_cell_value on its own: any cell of RefPool is written with any value
\* of WritePool on a loaded template, between row clonings made the way the
\* item loop makes them (rows 11, 12, ... in order).
RefPool ==
    {<<2, 2>>, <<3, 2>>, <<1, 4>>, <<10, 10>>, <<10, 31>>, <<11, 1>>,
     <<11, 30>>, <<11, 31>>, <<12, 33>>}

WritePool == {StrV("w"), NumV(0)}

InitWriter ==
    /\ template \in Templates
    /\ data = [p \in Procs |-> NoData]
    /\ pc = [p \in Procs |-> IF p = 1 THEN "writer" ELSE "off"]
    /\ ws = [p \in Procs |-> IF p = 1 THEN load_workbook(template) ELSE EmptySheet]
    /\ index = [p \in Procs |-> 0]
    /\ inserted = [p \in Procs |-> <<>>]
    /\ output_path = [p \in Procs |-> ""]
    /\ files = NoFiles
    /\ lastWrite = NoWrite
    /\ NoBeyanname

WriterWrite(cell_ref, value) ==
    /\ pc[1] = "writer"
    /\ lastWrite.n < MaxWrites
    /\ ws' = [ws EXCEPT ![1] = set_cell_value(ws[1], cell_ref, value)]
    /\ lastWrite' = [n |-> lastWrite.n + 1, ref |-> cell_ref, value |-> value]
    /\ UNCHANGED <<template, data, pc, index, inserted, output_path, files>>
    /\ UNCHANGED beyanname_vars

WriterClone ==
    /\ pc[1] = "writer"
    /\ index[1] + 1 < MaxItems
    /\ ws' = [ws EXCEPT ![1] = clone_row(ws[1], index[1] + 1)]
    /\ index' = [index EXCEPT ![1] = @ + 1]
    /\ inserted' = [inserted EXCEPT ![1] = Append(@, insert_position(index[1] + 1))]
    /\ UNCHANGED <<template, data, pc, output_path, files, lastWrite>>
    /\ UNCHANGED beyanname_vars

NextWriter ==
    \/ \E cell_ref \in RefPool, value \in WritePool : WriterWrite(cell_ref, value)
    \/ WriterClone

SpecWriter == InitWriter /\ [][NextWriter]_vars

\* ------------------------------------------------------------- export_beyanname_excel
\* An item with no keys at all.
EmptyBeyannameItem ==
    [tr_hs_code |-> AbsentV, cost |-> AbsentV, unit_count |-> AbsentV,
     hs_code_data |-> NoHsCodes, product_data |-> NoProduct,
     country_of_origin |-> AbsentText, style |-> AbsentV,
     fabric_content |-> AbsentV]

ItemVN ==
    [tr_hs_code |-> StrV("610910"), cost |-> NumV(10 * Scale),
     unit_count |-> NumV(5 * Scale),
     hs_code_data |-> [present |-> TRUE, unit |-> StrV("AD"),
                       description_tr |-> StrV("TISORT"), vat_percent |-> NumV(100)],
     product_data |-> [present |-> TRUE, brand |-> StrV("ACME"),
                       item_description |-> StrV("TEE")],
     country_of_origin |-> TextV(<<"V", "N">>), style |-> StrV("S-1"),
     fabric_content |-> StrV("COTTON")]

ItemLowerVn == [EmptyBeyannameItem EXCEPT !.country_of_origin = TextV(<<"v", "n">>)]
ItemZZ == [ItemVN EXCEPT !.country_of_origin = TextV(<<"Z", "Z">>)]
ItemXX == [EmptyBeyannameItem EXCEPT !.country_of_origin = TextV(<<"X", "X">>)]
ItemNoCountry == [ItemVN EXCEPT !.country_of_origin = NoneText]
ItemBadCountry == [ItemVN EXCEPT !.country_of_origin = NumberText]

BeyannameItemPool ==
    {ItemVN, ItemLowerVn, ItemZZ, ItemXX, ItemNoCountry, ItemBadCountry}

\* An override of a code of the default table, and one with a key in small
\* letters and a code the default table lacks.
OverrideVN == (<<"V", "N">> :> StrV("999"))
OverrideOther == (<<"v", "n">> :> StrV("111")) @@ (<<"X", "X">> :> StrV("123"))

CustomMappings ==
    {AbsentDict, DictV(EmptyDict), DictV(OverrideVN), DictV(OverrideOther), NoneDict}

BeyannamePayloads ==
    [calculation : {GoodCalc},
     items : SeqsUpTo(BeyannameItemPool, MaxBeyannameItems),
     customMappings : CustomMappings,
     timestamp : {AbsentV, StrV("1700000000")}]

\* The second invocation: one VN item, with and without an override.
OtherBeyannamePayloads ==
    [calculation : {GoodCalc},
     items : {<<ItemVN>>},
     customMappings : {DictV(EmptyDict), DictV(OverrideVN)},
     timestamp : {StrV("1700000001")}]

\* Lines 45-52: the template is loaded and the tables are merged; a null
\* customMappings cannot be unpacked (TypeError).
BeyannameLoad(p) ==
    /\ pc[p] = "start"
    /\ ws' = [ws EXCEPT ![p] = load_editable(template)]
    /\ LET custom_mappings == data[p].customMappings
           merged == merge_mappings(DEFAULT_COUNTRY_CODE_MAPPING, custom_mappings.d)
       IN  IF custom_mappings.k = "none"
           THEN /\ pc' = [pc EXCEPT ![p] = "failed"]
                /\ UNCHANGED beyanname_vars
           ELSE /\ pc' = [pc EXCEPT ![p] = "loop"]
                /\ country_code_mapping' =
                      [country_code_mapping EXCEPT ![p] = merged.country_code_mapping]
                /\ DEFAULT_COUNTRY_CODE_MAPPING' = merged.DEFAULT_COUNTRY_CODE_MAPPING
    /\ UNCHANGED <<template, data, index, inserted, output_path, files, lastWrite>>

\* Lines 57-125: one iteration of the loop, row start_row + index.
BeyannameItem(p) ==
    /\ pc[p] = "loop"
    /\ index[p] < Len(data[p].items)
    /\ LET row == beyanname_row(country_code_mapping[p], data[p].items[index[p] + 1])
           written == write_beyanname_row(ws[p], 2 + index[p], row.v)
       IN  IF ~row.ok
           THEN /\ pc' = [pc EXCEPT ![p] = "failed"]
                /\ UNCHANGED <<ws, index>>
           ELSE IF ~written.ok
           THEN /\ pc' = [pc EXCEPT ![p] = "failed"]
                /\ ws' = [ws EXCEPT ![p] = written.ws]
                /\ UNCHANGED index
           ELSE /\ ws' = [ws EXCEPT ![p] = written.ws]
                /\ index' = [index EXCEPT ![p] = @ + 1]
                /\ UNCHANGED pc
    /\ UNCHANGED <<template, data, inserted, output_path, files, lastWrite>>
    /\ UNCHANGED beyanname_vars

\* Lines 128-132: the workbook is saved and the path returned.
BeyannameSave(p) ==
    /\ pc[p] = "loop"
    /\ index[p] = Len(data[p].items)
    /\ LET path == beyanname_output_path(data[p])
       IN  /\ files' = [x \in (DOMAIN files) \cup {path} |->
                           IF x = path THEN [workbook |-> ws[p], by |-> p]
                           ELSE files[x]]
           /\ output_path' = [output_path EXCEPT ![p] = path]
    /\ pc' = [pc EXCEPT ![p] = "done"]
    /\ UNCHANGED <<template, data, ws, index, inserted, lastWrite>>
    /\ UNCHANGED beyanname_vars

\* Two invocations of export_beyanname_excel in one interpreter, interleaved
\* in every order.
InitBeyanname ==
    /\ template = BeyannameTemplate
    /\ data \in {[p \in Procs |-> IF p = 1 THEN d ELSE e] :
                    d \in BeyannamePayloads, e \in OtherBeyannamePayloads}
    /\ pc = [p \in Procs |-> "start"]
    /\ ws = [p \in Procs |-> EmptySheet]
    /\ index = [p \in Procs |-> 0]
    /\ inserted = [p \in Procs |-> <<>>]
    /\ output_path = [p \in Procs |-> ""]
    /\ files = NoFiles
    /\ lastWrite = NoWrite
    /\ NoBeyanname

NextBeyanname ==
    \E p \in Procs :
        \/ BeyannameLoad(p)
        \/ BeyannameItem(p)
        \/ BeyannameSave(p)

SpecBeyanname == InitBeyanname /\ [][NextBeyanname]_vars

\* ------------------------------------------------------------- claims
Items(p) == data[p].items

\* The number a numeric field stands for: 0 when the key is missing.
NumberOf(v) == IF v.k \in {"num", "numstr"} THEN v.n ELSE 0

TextOf(v) == IF v.k = "absent" THEN StrV("") ELSE v

ValueAt(p, rc) == cell(ws[p], rc).value

\* Row r of invocation p carries the identity of item: its tariff code, its
\* country of origin and its cost.
RowCarries(p, r, item) ==
    /\ ValueAt(p, <<r, 1>>) = TextOf(item.hts_code)
    /\ ValueAt(p, <<r, 2>>) = TextOf(item.country_of_origin)
    /\ ValueAt(p, <<r, 8>>) = NumV(NumberOf(item.cost))

\* C1: after every completed loop iteration the items processed so far sit in
\* rows 10, 11, ... in input order; the first item took the template row with
\* no insertion and each later item i caused exactly one insertion, at row
\* 10 + i, so no insertion moved or overwrote a populated row; after the loop
\* the N item rows are rows 10 .. 9 + N and nothing is left below them.
C1_DataRowsContiguous ==
    \A p \in Procs :
        pc[p] \in {"loop", "save", "done"} =>
            /\ Len(inserted[p]) = (IF index[p] = 0 THEN 0 ELSE index[p] - 1)
            /\ \A j \in 1 .. Len(inserted[p]) : inserted[p][j] = 10 + j
            /\ \A i \in 0 .. (index[p] - 1) : RowCarries(p, 10 + i, Items(p)[i + 1])
            /\ pc[p] \in {"save", "done"} =>
                  /\ index[p] = Len(Items(p))
                  /\ \A rc \in DOMAIN ws[p].cells :
                        (rc[1] >= 10 + Len(Items(p)) /\ rc[2] \in 1 .. 30) =>
                            /\ ~truthy(ws[p].cells[rc].value)
                            /\ ws[p].cells[rc].fill = "none"
                            /\ ws[p].cells[rc].border = "none"

C1_Witness ==
    /\ pc[1] = "done"
    /\ Len(Items(1)) = 3
    /\ Items(1)[1] # Items(1)[2]
    /\ Items(1)[2] # Items(1)[3]
    /\ inserted[1] = <<11, 12>>
    /\ RowCarries(1, 11, Items(1)[2])

TemplateRowRanges ==
    {rng \in template.merged_cells : rng.min_row = 10 /\ rng.max_row = 10}

\* C2: with two or more items, after the run every merged region of the
\* template that spans exactly row 10 is registered with the same columns on
\* each data row 10 .. 9 + N, and the only regions registered besides the
\* template's own are those copies: none on a header or summary row, none
\* below the last data row.
C2_MergedRegionsCloned ==
    \A p \in Procs :
        (pc[p] \in {"save", "done"} /\ Len(Items(p)) >= 2) =>
            /\ template.merged_cells \subseteq ws[p].merged_cells
            /\ \A rng \in TemplateRowRanges :
                  \A r \in 10 .. (9 + Len(Items(p))) :
                      CellRange(rng.min_col, r, rng.max_col, r) \in ws[p].merged_cells
            /\ \A m \in ws[p].merged_cells \ template.merged_cells :
                  /\ m.min_row = m.max_row
                  /\ m.min_row \in 11 .. (9 + Len(Items(p)))
                  /\ \E rng \in TemplateRowRanges :
                        rng.min_col = m.min_col /\ rng.max_col = m.max_col

C2_Witness ==
    /\ pc[1] = "done"
    /\ Len(Items(1)) = 3
    /\ TemplateRowRanges # {}
    /\ CellRange(30, 12, 31, 12) \in ws[1].merged_cells
    /\ CellRange(32, 11, 33, 11) \in ws[1].merged_cells

\* C3: a call set_cell_value(ws, ref, v) puts v into the top-left cell of the
\* merged region registered at that moment that contains ref, and into ref
\* itself when no region contains it; no other cell and no region changes.
C3_WriteResolvesToAnchor ==
    [][lastWrite'.n # lastWrite.n =>
        LET ref == lastWrite'.ref
            target == IF \E rng \in ws[1].merged_cells : InRange(ref, rng)
                      THEN LET rng == CHOOSE x \in ws[1].merged_cells : InRange(ref, x)
                           IN  <<rng.min_row, rng.min_col>>
                      ELSE ref
        IN  /\ \A rng \in ws[1].merged_cells :
                  InRange(ref, rng) =>
                      cell(ws'[1], <<rng.min_row, rng.min_col>>).value = lastWrite'.value
            /\ (\A rng \in ws[1].merged_cells : ~InRange(ref, rng)) =>
                  cell(ws'[1], ref).value = lastWrite'.value
            /\ \A rc \in (DOMAIN ws[1].cells) \cup (DOMAIN ws'[1].cells) :
                  rc # target => cell(ws'[1], rc) = cell(ws[1], rc)
            /\ ws'[1].merged_cells = ws[1].merged_cells
      ]_vars

\* A value written to AE11, inside the region AD11:AE11 that cloning row 11
\* registered, sits in AD11.
C3_Witness ==
    /\ lastWrite.n > 0
    /\ lastWrite.ref = <<11, 31>>
    /\ lastWrite.value = StrV("w")
    /\ CellRange(30, 11, 31, 11) \in ws[1].merged_cells
    /\ cell(ws[1], <<11, 30>>).value = StrV("w")
    /\ cell(ws[1], <<11, 31>>).value = NoneV

\* The 30 values of the fixed schema A..AD for one item, field by field.
HsPercent(item, field) ==
    IF item.hs_code_data.present THEN NumberOf(item.hs_code_data[field]) ELSE 0

Flag(item, words) ==
    StrV(IF \E i \in 1 .. Len(item.requirements) :
               /\ i + Len(words) - 1 <= Len(item.requirements)
               /\ \A j \in 1 .. Len(words) : item.requirements[i + j - 1] = words[j]
         THEN "X" ELSE "")

SchemaRow(item) ==
    LET X == NumberOf(item.kkdf)
        Y == NumberOf(item.vat_base)
        Z == Y - X
        AC == NumberOf(item.total_tax_usd)
    IN  << TextOf(item.hts_code),                                \* A
           TextOf(item.country_of_origin),                       \* B
           TextOf(item.style),                                   \* C
           TextOf(item.color),                                   \* D
           TextOf(item.category),                                \* E
           TextOf(item.description),                             \* F
           TextOf(item.fabric_content),                          \* G
           NumV(NumberOf(item.cost)),                            \* H
           NumV(NumberOf(item.unit_count)),                      \* I
           NumV(NumberOf(item.total_value)),                     \* J
           TextOf(item.tr_hs_code),                              \* K
           Flag(item, <<"EX", "REGISTRY", "FORM">>),             \* L
           Flag(item, <<"AZO", "DYE", "TEST">>),                 \* M
           Flag(item, <<"SPECIAL", "CUSTOM">>),                  \* N
           NumV(NumberOf(item.transport_share)),                 \* O
           NumV(NumberOf(item.insurance_share)),                 \* P
           NumV(NumberOf(item.storage_share)),                   \* Q
           NumV(HsPercent(item, "customs_tax_percent")),         \* R
           NumV(HsPercent(item, "additional_customs_tax_percent")), \* S
           NumV(HsPercent(item, "kkdf_percent")),                \* T
           NumV(HsPercent(item, "vat_percent")),                 \* U
           NumV(NumberOf(item.customs_tax)),                     \* V
           NumV(NumberOf(item.additional_customs_tax)),          \* W
           NumV(X),                                              \* X
           NumV(Y),                                              \* Y
           NumV(Z),                                              \* Z
           NumV(NumberOf(item.vat)),                             \* AA
           NumV((Z * HsPercent(item, "vat_percent")) \div Scale), \* AB
           NumV(AC),                                             \* AC
           NumV(AC - X) >>                                       \* AD

\* C4: after the run, for every item i each of the 30 cells A..AD of row
\* 10 + i holds the field the schema gives that column: Z = Y - X,
\* AB = Z * vat_percent (vat_percent 0 without hs_code_data), AD = AC - X.
C4_FixedColumnSchema ==
    \A p \in Procs :
        pc[p] \in {"save", "done"} =>
            \A i \in 1 .. Len(Items(p)) :
                \A c \in 1 .. 30 :
                    ValueAt(p, <<9 + i, c>>) = SchemaRow(Items(p)[i])[c]

\* Scenario D in the second row: Z11 = 95.0 and AB11 = 9.5.
C4_Witness ==
    /\ pc[1] = "done"
    /\ Len(Items(1)) >= 2
    /\ Items(1)[1] = ItemA
    /\ Items(1)[2] = ItemD
    /\ ValueAt(1, <<11, 26>>) = NumV(95 * Scale)
    /\ ValueAt(1, <<11, 28>>) = NumV(9500)
    /\ ValueAt(1, <<10, 28>>) = NumV(0)

RECURSIVE SumOver(_, _)
SumOver(items, field) ==
    IF items = <<>> THEN 0
    ELSE NumberOf(Head(items)[field]) + SumOver(Tail(items), field)

\* C5: once the summary is written, and still after the scrub, A7, B7, C7,
\* E7, F7 and H7 hold the sums of customs_tax, additional_customs_tax, kkdf,
\* vat, total_tax_usd and total_tax_tl over all items (a missing field
\* counting 0), D7 holds sum(vat) + sum(kkdf) and G7 holds
\* sum(total_tax_usd) - sum(kkdf).
C5_SummaryTotals ==
    \A p \in Procs :
        pc[p] \in {"heads", "loop", "save", "done"} =>
            /\ ValueAt(p, <<7, 1>>) = NumV(SumOver(Items(p), "customs_tax"))
            /\ ValueAt(p, <<7, 2>>) = NumV(SumOver(Items(p), "additional_customs_tax"))
            /\ ValueAt(p, <<7, 3>>) = NumV(SumOver(Items(p), "kkdf"))
            /\ ValueAt(p, <<7, 4>>) =
                  NumV(SumOver(Items(p), "vat") + SumOver(Items(p), "kkdf"))
            /\ ValueAt(p, <<7, 5>>) = NumV(SumOver(Items(p), "vat"))
            /\ ValueAt(p, <<7, 6>>) = NumV(SumOver(Items(p), "total_tax_usd"))
            /\ ValueAt(p, <<7, 7>>) =
                  NumV(SumOver(Items(p), "total_tax_usd") - SumOver(Items(p), "kkdf"))
            /\ ValueAt(p, <<7, 8>>) = NumV(SumOver(Items(p), "total_tax_tl"))

\* Two items with taxes and one without: D7 = 20 + 10 and G7 = 94 - 10.
C5_Witness ==
    /\ pc[1] = "done"
    /\ Items(1) = <<ItemD, ItemA, ItemD>>
    /\ ValueAt(1, <<7, 4>>) = NumV(30 * Scale)
    /\ ValueAt(1, <<7, 7>>) = NumV(84 * Scale)

\* A numeric field that float() rejects, and one that int() rejects.
NotFloat(v) == v.k \notin {"absent", "num", "numstr"}
NotInt(v) == v.k \notin {"absent", "num"}

BadItem(item) ==
    \/ NotFloat(item.cost) \/ NotInt(item.unit_count) \/ NotFloat(item.total_value)
    \/ NotFloat(item.transport_share) \/ NotFloat(item.insurance_share)
    \/ NotFloat(item.storage_share)
    \/ NotFloat(item.customs_tax) \/ NotFloat(item.additional_customs_tax)
    \/ NotFloat(item.kkdf) \/ NotFloat(item.vat) \/ NotFloat(item.total_tax_usd)
    \/ NotFloat(item.total_tax_tl) \/ NotFloat(item.vat_base)
    \/ /\ item.hs_code_data.present
       /\ \/ NotFloat(item.hs_code_data.customs_tax_percent)
          \/ NotFloat(item.hs_code_data.additional_customs_tax_percent)
          \/ NotFloat(item.hs_code_data.kkdf_percent)
          \/ NotFloat(item.hs_code_data.vat_percent)

BadCalc(calc) ==
    \/ NotFloat(calc.total_value) \/ NotInt(calc.total_quantity)
    \/ NotFloat(calc.transport_cost) \/ NotFloat(calc.insurance_cost)
    \/ NotFloat(calc.storage_cost) \/ NotFloat(calc.currency_rate)

\* C6: when a numeric field of the header or of any item, at any position,
\* cannot be coerced, the invocation never reaches the scrub, saves no file
\* and returns no path, and no row is completed for a bad item or after one.
C6_BadNumberAborts ==
    \A p \in Procs :
        (BadCalc(data[p].calculation) \/ \E i \in 1 .. Len(Items(p)) : BadItem(Items(p)[i])) =>
            /\ pc[p] \notin {"save", "done"}
            /\ output_path[p] = ""
            /\ \A f \in DOMAIN files : files[f].by # p
            /\ BadCalc(data[p].calculation) => pc[p] \notin {"heads", "loop"}
            /\ \A i \in 1 .. index[p] : ~BadItem(Items(p)[i])

\* The third item is bad: two rows were written, then the run failed.
C6_Witness ==
    /\ pc[1] = "failed"
    /\ index[1] = 2
    /\ Len(Items(1)) = 3
    /\ Items(1)[3] = ItemBadCost
    /\ ValueAt(1, <<11, 1>>) = TextOf(Items(1)[2].hts_code)
    /\ files = NoFiles

Shaded(p, r) == \A c \in 1 .. 30 : cell(ws[p], <<r, c>>).fill = "gray"
Unshaded(p, r) == \A c \in 1 .. 30 : cell(ws[p], <<r, c>>).fill = "white"

\* C7 as claimed: for a single item that supplies cost c and unit_count u
\* and no total or tax field, J10 holds c * u (Scenario A: 50.0) and row 10 is
\* shaded; the row of item i is shaded iff i is even.
C7_TotalValueIsCostTimesUnits ==
    \A p \in Procs :
        pc[p] = "done" =>
            /\ (Len(Items(p)) = 1 /\ Items(p)[1] = ItemA) =>
                  /\ ValueAt(p, <<10, 10>>) =
                        NumV((NumberOf(ItemA.cost) * NumberOf(ItemA.unit_count)) \div Scale)
                  /\ Shaded(p, 10)
            /\ \A i \in 0 .. (Len(Items(p)) - 1) :
                  IF i % 2 = 0 THEN Shaded(p, 10 + i) ELSE Unshaded(p, 10 + i)

\* C7 as amended: column J of the row of item i holds the item's own
\* total_value field, 0.0 when the item supplies none (so 0.0, not 50.0, in
\* Scenario A); the product cost * unit_count is not computed.  All 30 cells
\* of the row of item i are shaded iff i is even and unshaded iff i is odd.
C7_TotalValueIsItemField ==
    \A p \in Procs :
        pc[p] = "done" =>
            /\ \A i \in 0 .. (Len(Items(p)) - 1) :
                  /\ ValueAt(p, <<10 + i, 10>>) = NumV(NumberOf(Items(p)[i + 1].total_value))
                  /\ IF i % 2 = 0 THEN Shaded(p, 10 + i) /\ ~Unshaded(p, 10 + i)
                     ELSE Unshaded(p, 10 + i) /\ ~Shaded(p, 10 + i)
            /\ (Len(Items(p)) = 1 /\ Items(p)[1] = ItemA) =>
                  ValueAt(p, <<10, 10>>) = NumV(0)

\* Scenario A alone, and an item whose total_value (120.0) is not
\* cost * unit_count (12.5 * 8).
C7_Witness ==
    /\ pc[1] = "done"
    /\ Items(1) = <<ItemA, ItemD>>
    /\ ValueAt(1, <<10, 10>>) = NumV(0)
    /\ ValueAt(1, <<11, 10>>) = NumV(120 * Scale)
    /\ Shaded(1, 10)
    /\ Unshaded(1, 11)

\* Two rectangles share a cell.
Overlap(a, b) ==
    /\ a.min_row <= b.max_row /\ b.min_row <= a.max_row
    /\ a.min_col <= b.max_col /\ b.min_col <= a.max_col

DataRange(p) == CellRange(1, 10, 30, 9 + Len(Items(p)))

\* The header cells the exporter writes: B2..H2, B4..H4, A6..H7, A9..AD9.
WrittenHeaderCells ==
    ({2, 4} \X (2 .. 8)) \cup ({6, 7} \X (1 .. 8)) \cup ({9} \X (1 .. 30))

\* C8: the scrub step leaves every cell of the data range (rows 10 .. 9 + N,
\* columns A..AD) as it was, value, border and fill, and leaves the values
\* of the header and summary cells; the three regions it registers are
\* A{10+N}:AD6000, AC1:BZ7 and AE1:BZ6000 and none shares a cell with the
\* data range.
C8_ScrubSparesDataRows ==
    [][\A p \in Procs :
          (pc[p] = "loop" /\ pc'[p] = "save") =>
              /\ \A rc \in RangeCells(DataRange(p)) : cell(ws'[p], rc) = cell(ws[p], rc)
              /\ \A rc \in WrittenHeaderCells :
                    cell(ws'[p], rc).value = cell(ws[p], rc).value
              /\ ws'[p].conditional_formatting =
                    {CellRange(1, 10 + Len(Items(p)), 30, 6000),
                     CellRange(29, 1, 78, 7), CellRange(31, 1, 78, 6000)}
              /\ Len(Items(p)) > 0 =>
                    \A region \in ws'[p].conditional_formatting :
                        ~Overlap(region, DataRange(p))
      ]_vars

\* Three rows were written and the template's leftover row, pushed to row
\* 13, was cleared by the scrub.
C8_Witness ==
    /\ pc[1] = "save"
    /\ Len(Items(1)) = 3
    /\ CellRange(1, 13, 30, 6000) \in ws[1].conditional_formatting
    /\ <<13, 1>> \in DOMAIN ws[1].cells
    /\ ValueAt(1, <<13, 1>>) = NoneV
    /\ cell(ws[1], <<13, 1>>).border = "none"
    /\ ValueAt(1, <<12, 1>>) = TextOf(Items(1)[3].hts_code)
    /\ Shaded(1, 12)

\* C9: with items = [] no row is inserted and no item value written, every
\* cell of columns A..AD from row 10 down, the template row included, has
\* its value cleared, and A7..H7 are all 0.
C9_EmptyReportCleared ==
    \A p \in Procs :
        (pc[p] = "done" /\ Items(p) = <<>>) =>
            /\ inserted[p] = <<>>
            /\ index[p] = 0
            /\ \A rc \in DOMAIN ws[p].cells :
                  (rc[1] >= 10 /\ rc[2] \in 1 .. 30) => ws[p].cells[rc].value = NoneV
            /\ \A c \in 1 .. 8 : ValueAt(p, <<7, c>>) = NumV(0)

RefOf(calc) == IF calc.reference.k = "absent" THEN "export" ELSE calc.reference.s

\* C10 as claimed: two invocations that both returned wrote to distinct
\* paths, also when their calculations carry the same reference.
C10_DistinctOutputPaths ==
    (pc[1] = "done" /\ pc[2] = "done") => output_path[1] # output_path[2]

\* C10 as amended: the path is derived from the reference alone,
\* /tmp/tax_calculation_<reference>.xlsx with no timestamp or suffix.  Each
\* invocation saves its own workbook; two invocations with different
\* references write distinct paths and each artifact stays as saved, and two
\* invocations with the same reference write the same path, where the file
\* is the workbook of the one that saved last.
C10_PathFromReferenceOnly ==
    /\ \A p \in Procs :
          pc[p] = "done" =>
              /\ output_path[p] =
                    "/tmp/tax_calculation_" \o RefOf(data[p].calculation) \o ".xlsx"
              /\ output_path[p] \in DOMAIN files
              /\ files[output_path[p]].workbook = ws[files[output_path[p]].by]
              /\ pc[files[output_path[p]].by] = "done"
              /\ output_path[files[output_path[p]].by] = output_path[p]
    /\ \A p \in Procs, q \in Procs :
          (pc[p] = "done" /\ pc[q] = "done") =>
              /\ (output_path[p] = output_path[q]) <=>
                    (RefOf(data[p].calculation) = RefOf(data[q].calculation))
              /\ RefOf(data[p].calculation) # RefOf(data[q].calculation) =>
                    files[output_path[p]].by = p
    /\ \A f \in DOMAIN files : \E p \in Procs : pc[p] = "done" /\ output_path[p] = f

\* Both invocations carry the same reference and different items; the one
\* file holds the workbook of invocation 2, the artifact of invocation 1 is
\* gone.
C10_Witness ==
    /\ pc[1] = "done"
    /\ pc[2] = "done"
    /\ RefOf(data[1].calculation) = RefOf(data[2].calculation)
    /\ Items(1) # Items(2)
    /\ output_path[1] = output_path[2]
    /\ files[output_path[1]].by = 2
    /\ files[output_path[1]].workbook # ws[1]

\* The code the merged tables hold for a key: the override's value when the
\* override has the key, else the default's, else ''.
Expected(custom, key) ==
    IF key \in DOMAIN custom THEN custom[key]
    ELSE IF key \in DOMAIN CountryCodeTable THEN CountryCodeTable[key]
    ELSE StrV("")

\* C11: in export_beyanname_excel the code written in column C of an item's
\* row is the lookup of its country, in capitals, in the default table
\* merged with customMappings: the default's value when the override lacks
\* the key (VN -> "690" with an empty override), the override's value when
\* both have it, '' when neither has it (ZZ), and a row with such a country
\* does not abort; the module's default table is the same in every state.
C11_CountryCodeLookup ==
    /\ DEFAULT_COUNTRY_CODE_MAPPING = CountryCodeTable
    /\ \A p \in Procs :
          LET custom == data[p].customMappings.d
          IN  /\ \A i \in 1 .. index[p] :
                    LET country == Items(p)[i].country_of_origin
                        code == ValueAt(p, <<1 + i, 3>>)
                    IN  /\ country.k = "str" /\ country.chars # <<>> =>
                              code = Expected(custom, upper(country.chars))
                        /\ country = TextV(<<"V", "N">>) /\ custom = EmptyDict =>
                              code = StrV("690")
                        /\ country = TextV(<<"V", "N">>) /\ <<"V", "N">> \in DOMAIN custom =>
                              code = custom[<<"V", "N">>] /\ code # StrV("690")
                        /\ country = TextV(<<"Z", "Z">>) => code = StrV("")
                        /\ country.k # "str" => code = StrV("")
              /\ pc[p] = "failed" =>
                    \/ data[p].customMappings.k = "none"
                    \/ /\ index[p] < Len(Items(p))
                       /\ Items(p)[index[p] + 1].country_of_origin.k = "num"
              /\ pc[p] = "done" =>
                    /\ index[p] = Len(Items(p))
                    /\ files[output_path[p]].workbook = ws[p]

\* Invocation 1 overrides VN and wrote a VN row and a ZZ row; invocation 2,
\* with an empty override, wrote its VN row after invocation 1 had merged.
C11_Witness ==
    /\ pc[1] = "done"
    /\ pc[2] = "done"
    /\ data[1].customMappings = DictV(OverrideVN)
    /\ data[2].customMappings = DictV(EmptyDict)
    /\ Items(1) = <<ItemVN, ItemZZ>>
    /\ ValueAt(1, <<2, 3>>) = StrV("999")
    /\ ValueAt(1, <<3, 3>>) = StrV("")
    /\ ValueAt(2, <<2, 3>>) = StrV("690")
    /\ cell(ws[1], <<2, 3>>).style = "@"
    /\ files[output_path[2]].by = 2
    /\ DEFAULT_COUNTRY_CODE_MAPPING[<<"V", "N">>] = StrV("690")

====
